---- MODULE Spec2Model ----
(***************************************************************************)
(* A model of two subsystems of PySyft:                                    *)
(*   - BaseWorker (src/syft/workers/base.py): the per-party object         *)
(*     registry and the router of the four message kinds;                  *)
(*   - GammaTensor (src/packages/syft/src/syft/core/tensor/autodp/         *)
(*     gamma_tensor.py): the lazy computation graph and publish.           *)
(* Each subsystem has its own specification (SpecWorker, SpecGraph,        *)
(* SpecPublish); the variables of the other subsystems stay at their       *)
(* initial values.                                                         *)
(***************************************************************************)
EXTENDS Integers, Sequences, FiniteSets, TLC

VARIABLES
    \* ---- BaseWorker ----
    objects,            \* self._objects: registry, a function key -> object reference
    objId,              \* the id attribute of every object of the heap
    owned,              \* the objects that carry an owner attribute
    is_client_worker,   \* self.is_client_worker
    lastOp,             \* the last message / call handled and its outcome
    mutated,            \* whether the last operation changed self._objects
    handedOver,         \* ids handed over by request-object straight after store-object,
                        \* and not inserted again since
    \* ---- GammaTensor graph ----
    nodes,              \* the GammaTensors constructed so far, in order of construction
    lastBound,          \* the lipschitz_bound read: the flag of its node and what came back
    lastOperand,        \* the last operator call with an operand of no supported type
    \* ---- one publish call against the budget ledger ----
    ledger,             \* DataSubjectLedger: remaining budget of every data subject
    pc,                 \* where the publish call stands
    request,            \* what the caller passed to GammaTensor.publish
    engineArgs,         \* what GammaTensor.publish passed on to the engine
    retained,           \* the data subjects still included in the result
    deductions,         \* per data subject, the deduct calls that succeeded in this call
    paidAttempt,        \* per data subject, the attempt in which its deduct succeeded
    pending,            \* the data subjects whose deduct call is still due in this attempt
    attempt,            \* the number of the running round of the drop-and-retry loop
    failedAttempts,     \* the attempts in which a deduct call failed
    releasedAttempt,    \* the attempt that returned a value (0: none)
    \* ---- TensorWrappedGammaTensorPointer dispatch ----
    pointers,           \* the pointers the caller holds, in order of construction
    outbox,             \* the messages sent to the clients, in order
    processing_pointers,\* per client, the ids flagged in client.processing_pointers
    lastApply,          \* the last operation applied to a pointer and its outcome
    \* ---- the address book of a second worker, which sends to the first ----
    known_workers,      \* self._known_workers: a function worker id -> worker reference
    lastNet             \* the last get_worker / add_worker / send call and its outcome

workerVars == <<objects, objId, owned, is_client_worker, lastOp, mutated, handedOver>>

graphVars == <<nodes, lastBound, lastOperand>>

publishVars == <<ledger, pc, request, engineArgs, retained, deductions, paidAttempt,
                 pending, attempt, failedAttempts, releasedAttempt>>

pointerVars == <<pointers, outbox, processing_pointers, lastApply>>

networkVars == <<known_workers, lastNet>>

vars == <<workerVars, graphVars, publishVars, pointerVars, networkVars>>

(***************************************************************************)
(*                              BaseWorker                                 *)
(***************************************************************************)

\* Number of objects on the heap (object references are 1..NumObjs; 0 is None).
NumObjs == 2

\* Largest object id; ids are 1..MaxId.
MaxId == 2

Objs == 1..NumObjs

Ids == 1..MaxId

None == 0

\* ---- data subjects and their budgets ----
NumSubjects == 2
MaxBudget == 3
Subjects == 1..NumSubjects

\* No lipschitz_bound has been read.
NoBound == [read |-> FALSE, is_linear |-> FALSE, value |-> None, searched |-> FALSE,
            bounds_read |-> FALSE]

\* No operator has been called with an operand of no supported type.
NoOperand == [op |-> "none", other |-> "none", outcome |-> "ok", built |-> FALSE]

\* The per-call bookkeeping of a publish call that has not started.
NoCall ==
    /\ request = [tensor |-> None, data_subjects |-> {}, private |-> FALSE]
    /\ engineArgs = [tensor |-> None, is_linear |-> FALSE, private |-> FALSE]
    /\ retained = {}
    /\ deductions = [s \in Subjects |-> 0]
    /\ paidAttempt = [s \in Subjects |-> 0]
    /\ pending = {}
    /\ attempt = 0
    /\ failedAttempts = {}
    /\ releasedAttempt = 0

\* Nothing is published and every budget is spent.
PublishIdle ==
    /\ pc = "idle"
    /\ ledger = [s \in Subjects |-> 0]
    /\ NoCall

\* ---- clients and pointers ----
NumParties == 2
Parties == 1..NumParties

\* The record kept of an operation applied to a pointer.
ApplyRecord(op, self, other, route, outcome, sent, result) ==
    [op |-> op, self |-> self, other |-> other, route |-> route, outcome |-> outcome,
     sent |-> sent, result |-> result]

\* No pointer is held and nothing was sent.
PointerIdle ==
    /\ pointers = <<>>
    /\ outbox = <<>>
    /\ processing_pointers = [c \in Parties |-> {}]
    /\ lastApply = ApplyRecord("init", None, <<"none", None>>, "none", "ok", 0, None)

\* ---- workers and the address book ----
NumWorkers == 3

\* Worker references; 0 is None.
Workers == 1..NumWorkers

\* worker.id of a worker reference: two references can carry the same id.
WorkerIdOf(w) == (w \div 2) + 1

WorkerIds == {WorkerIdOf(w) : w \in Workers}

\* No pointer was returned.
NoPointer == [location |-> None, id_at_location |-> None, id |-> None]

\* The record kept of a get_worker, add_worker or send call.
NetRecord(kind, arg, outcome, retKind, ret, warned, tensor, pointer) ==
    [kind |-> kind, arg |-> arg, outcome |-> outcome, retKind |-> retKind, ret |-> ret,
     warned |-> warned, tensor |-> tensor, pointer |-> pointer]

\* No second worker is there.
NetworkIdle ==
    /\ known_workers = [k \in {} |-> None]
    /\ lastNet = NetRecord("init", <<"none", None>>, "ok", "none", None, FALSE, None, NoPointer)

\* syft.codes.MSGTYPE: the four message kinds.
MSGTYPE == [CMD |-> "CMD", OBJ |-> "OBJ", OBJ_REQ |-> "OBJ_REQ", OBJ_DEL |-> "OBJ_DEL"]

\* self._message_router: one handler for each message kind.
MessageRouter ==
    [CMD |-> "execute_command", OBJ |-> "set_obj",
     OBJ_REQ |-> "respond_to_obj_req", OBJ_DEL |-> "rm_obj"]

\* The names a command message may carry.
\*   "torch.add"  a function of the allow-list
\*   "add"        a tensor method whose name is in the allow-list
\*   "set_"       a tensor method whose name is not in the allow-list
\*   "os.system"  neither a tensor method nor in the allow-list
Commands == {"torch.add", "add", "set_", "os.system"}

\* The allow-list sy.torch.command_guard checks against.
AllowList == {"torch.add", "add"}

\* The attributes getattr(_self, command) finds on a tensor.
TensorMethods == {"add", "set_"}

\* sy.torch.command_guard(command, "torch_modules"): TRUE when the command passes.
command_guard(command) == command \in AllowList

\* recv_msg step 2 as it would be if a response of None were passed on.
NormalizeResponse_keeps_none(retKind) == retKind

\* recv_msg step 2: a response of None becomes 0.
NormalizeResponse(retKind) == IF retKind = "none" THEN "zero" ELSE retKind

\* set_obj as it would be if an id already present kept its old object.
set_obj_if_absent(reg, oid, obj) ==
    [k \in (DOMAIN reg) \cup {oid[obj]} |-> IF k \in DOMAIN reg THEN reg[k] ELSE obj]

\* set_obj: self._objects[obj.id] = obj
set_obj(reg, oid, obj) ==
    [k \in (DOMAIN reg) \cup {oid[obj]} |-> IF k = oid[obj] THEN obj ELSE reg[k]]

\* rm_obj as it would be if it deleted every entry with the one asked for.
rm_obj_clears(reg, remote_key) ==
    IF remote_key \in DOMAIN reg THEN [k \in {} |-> None] ELSE reg

\* rm_obj: if remote_key in self._objects: del self._objects[remote_key]
rm_obj(reg, remote_key) ==
    IF remote_key \in DOMAIN reg
    THEN [k \in (DOMAIN reg) \ {remote_key} |-> reg[k]]
    ELSE reg

\* de_register_obj as it would be if the rm_obj call were left out.
de_register_obj_keeps(reg, oid, obj) == reg

\* de_register_obj on the registry: every object has an id, so rm_obj(obj.id).
de_register_obj(reg, oid, obj) == rm_obj(reg, oid[obj])

\* register_obj on the registry: nothing on a client worker, else set_obj.
register_obj(reg, oid, obj, client) ==
    IF client THEN reg ELSE set_obj(reg, oid, obj)

\* The keys a registry gains between two of its values.
Inserted(old, new) ==
    {k \in DOMAIN new : k \notin DOMAIN old \/ old[k] # new[k]}

OpRecord(kind, key, cmd, method, outcome, retKind, ret, invoked) ==
    [kind |-> kind, key |-> key, cmd |-> cmd, method |-> method, outcome |-> outcome,
     retKind |-> retKind, ret |-> ret, invoked |-> invoked]

\* BaseWorker.__init__: an empty registry.  The heap holds objects whose ids
\* were given by their creators; two objects may carry the same id.
InitWorker ==
    /\ objects = [k \in {} |-> None]
    /\ objId \in [Objs -> Ids]
    /\ owned = {}
    /\ is_client_worker \in BOOLEAN
    /\ lastOp = OpRecord("init", None, "", FALSE, "ok", "none", None, FALSE)
    /\ mutated = FALSE
    /\ handedOver = {}
    /\ nodes = <<>>
    /\ lastBound = NoBound
    /\ lastOperand = NoOperand
    /\ PublishIdle
    /\ PointerIdle
    /\ NetworkIdle

\* recv_msg of (MSGTYPE.OBJ, obj): set_obj(obj), which returns None.
RecvObj(obj) ==
    /\ MessageRouter[MSGTYPE.OBJ] = "set_obj"
    /\ objects' = set_obj(objects, objId, obj)
    /\ handedOver' = handedOver \ {objId[obj]}
    /\ lastOp' = OpRecord(MSGTYPE.OBJ, objId[obj], "", FALSE, "ok",
                          NormalizeResponse("none"), None, FALSE)
    /\ UNCHANGED <<objId, owned, is_client_worker>>
    /\ mutated' = (objects' # objects)
    /\ UNCHANGED <<graphVars, publishVars, pointerVars, networkVars>>

\* recv_msg of (MSGTYPE.OBJ_REQ, obj_id): respond_to_obj_req(obj_id).
\* get_obj raises KeyError for a missing id; otherwise the object is
\* de-registered (rm_obj(obj.id), del obj.owner) and returned.
RecvObjReq(obj_id) ==
    /\ MessageRouter[MSGTYPE.OBJ_REQ] = "respond_to_obj_req"
    /\ IF obj_id \notin DOMAIN objects
       THEN /\ lastOp' = OpRecord(MSGTYPE.OBJ_REQ, obj_id, "", FALSE, "UnknownObject",
                                  "raise", None, FALSE)
            /\ UNCHANGED <<objects, owned, handedOver>>
       ELSE LET obj == objects[obj_id] IN
            /\ objects' = de_register_obj(objects, objId, obj)
            /\ owned' = owned \ {obj}
            /\ handedOver' =
                   IF lastOp.kind = MSGTYPE.OBJ /\ lastOp.key = obj_id
                   THEN handedOver \cup {obj_id}
                   ELSE handedOver
            /\ lastOp' = OpRecord(MSGTYPE.OBJ_REQ, obj_id, "", FALSE, "ok",
                                  NormalizeResponse("obj"), obj, FALSE)
    /\ UNCHANGED <<objId, is_client_worker>>
    /\ mutated' = (objects' # objects)
    /\ UNCHANGED <<graphVars, publishVars, pointerVars, networkVars>>

\* recv_msg of (MSGTYPE.OBJ_DEL, remote_key): rm_obj(remote_key), which returns None.
RecvObjDel(remote_key) ==
    /\ MessageRouter[MSGTYPE.OBJ_DEL] = "rm_obj"
    /\ objects' = rm_obj(objects, remote_key)
    /\ lastOp' = OpRecord(MSGTYPE.OBJ_DEL, remote_key, "", FALSE, "ok",
                          NormalizeResponse("none"), None, FALSE)
    /\ UNCHANGED <<objId, owned, is_client_worker, handedOver>>
    /\ mutated' = (objects' # objects)
    /\ UNCHANGED <<graphVars, publishVars, pointerVars, networkVars>>

\* recv_msg of (MSGTYPE.CMD, (command, _self, args, kwargs)): execute_command.
\*   _self is not None: getattr(_self, command)(*args, **kwargs), no guard;
\*                      a name that is no attribute raises AttributeError.
\*   _self is None:     command_guard(command), then the function is called.
\* The result tensor (any object: a new one, or an operand returned by an
\* in-place method) gets owner = self, is registered with register_obj and a
\* pointer with id_at_location = tensor.id is returned.
RecvCmd(command, self, tensor) ==
    /\ MessageRouter[MSGTYPE.CMD] = "execute_command"
    /\ IF self # None /\ command \notin TensorMethods
       THEN /\ lastOp' = OpRecord(MSGTYPE.CMD, None, command, TRUE, "AttributeError",
                                  "raise", None, FALSE)
            /\ UNCHANGED <<objects, owned, handedOver>>
       ELSE IF self = None /\ ~command_guard(command)
       THEN /\ lastOp' = OpRecord(MSGTYPE.CMD, None, command, FALSE, "DisallowedCommand",
                                  "raise", None, FALSE)
            /\ UNCHANGED <<objects, owned, handedOver>>
       ELSE /\ owned' = owned \cup {tensor}
            /\ objects' = register_obj(objects, objId, tensor, is_client_worker)
            /\ handedOver' = handedOver \ Inserted(objects, objects')
            /\ lastOp' = OpRecord(MSGTYPE.CMD, objId[tensor], command, self # None, "ok",
                                  NormalizeResponse("ptr"), objId[tensor], TRUE)
    /\ UNCHANGED <<objId, is_client_worker>>
    /\ mutated' = (objects' # objects)
    /\ UNCHANGED <<graphVars, publishVars, pointerVars, networkVars>>

\* A direct call of register_obj(obj, obj_id): on a client worker nothing;
\* otherwise obj.id = obj_id when obj_id is given (None: 0), then set_obj(obj).
RegisterObj(obj, obj_id) ==
    /\ IF is_client_worker
       THEN UNCHANGED <<objects, objId, handedOver>>
       ELSE /\ objId' = IF obj_id # None THEN [objId EXCEPT ![obj] = obj_id] ELSE objId
            /\ objects' = set_obj(objects, objId', obj)
            /\ handedOver' = handedOver \ {objId'[obj]}
    /\ lastOp' = OpRecord("register_obj", IF obj_id # None THEN obj_id ELSE objId[obj],
                          "", FALSE, "ok", "none", None, FALSE)
    /\ UNCHANGED <<owned, is_client_worker>>
    /\ mutated' = (objects' # objects)
    /\ UNCHANGED <<graphVars, publishVars, pointerVars, networkVars>>

\* A direct call of de_register_obj(obj): rm_obj(obj.id), del obj.owner.
DeRegisterObj(obj) ==
    /\ objects' = de_register_obj(objects, objId, obj)
    /\ owned' = owned \ {obj}
    /\ lastOp' = OpRecord("de_register_obj", objId[obj], "", FALSE, "ok", "none", None, FALSE)
    /\ UNCHANGED <<objId, is_client_worker, handedOver>>
    /\ mutated' = (objects' # objects)
    /\ UNCHANGED <<graphVars, publishVars, pointerVars, networkVars>>

NextWorker ==
    \/ \E obj \in Objs : RecvObj(obj)
    \/ \E obj_id \in Ids : RecvObjReq(obj_id)
    \/ \E remote_key \in Ids : RecvObjDel(remote_key)
    \/ \E command \in Commands, self \in Objs \cup {None}, tensor \in Objs :
           RecvCmd(command, self, tensor)
    \/ \E obj \in Objs, obj_id \in Ids \cup {None} : RegisterObj(obj, obj_id)
    \/ \E obj \in Objs : DeRegisterObj(obj)

SpecWorker == InitWorker /\ [][NextWorker]_vars

(***************************************************************************)
(*                       Claims about BaseWorker                           *)
(***************************************************************************)

\* C1: transfer semantics.  Once request-object(id) has handed over the object
\* that the store-object(id, v) just before it stored, and nothing has been
\* inserted under id since, every further request-object(id) fails with the
\* unknown-object lookup error (KeyError) and returns no object.
C1_TransferRemoves ==
    [][\A id \in Ids :
          (id \in handedOver /\ lastOp'.kind = MSGTYPE.OBJ_REQ /\ lastOp'.key = id)
              => (lastOp'.outcome = "UnknownObject" /\ lastOp'.retKind = "raise")]_vars

\* C1 witness: a request-object for a handed-over id has just failed.
C1_Witness ==
    /\ lastOp.kind = MSGTYPE.OBJ_REQ
    /\ lastOp.key \in handedOver
    /\ lastOp.outcome = "UnknownObject"

\* C2: an execute-command whose name is absent from the allow-list raises the
\* disallowed-command error and leaves the registry as it was.
C2_DisallowedCommandRaises ==
    (lastOp.kind = MSGTYPE.CMD /\ lastOp.cmd \notin AllowList)
        => (lastOp.outcome = "DisallowedCommand" /\ ~mutated)

\* C3: the allow-list guard covers every execute-command, with a self object
\* or without: no command whose name is outside the allow-list is invoked.
C3_GuardCoversEveryCommand ==
    (lastOp.kind = MSGTYPE.CMD /\ lastOp.invoked) => lastOp.cmd \in AllowList

\* A registry without the entry of key k.
Without(reg, k) == [j \in (DOMAIN reg) \ {k} |-> reg[j]]

\* Every entry of registry old but the one of key k is in registry new as it was.
OthersKept(old, new, k) ==
    \A j \in (DOMAIN old) \ {k} : j \in DOMAIN new /\ new[j] = old[j]

\* C16: store-object inserts the payload under the payload's id, replaces an
\* object already there without an error, and changes no other entry.
C16_StoreObjectInserts ==
    [][\A obj \in Objs :
          RecvObj(obj)
              => /\ DOMAIN objects' = (DOMAIN objects) \cup {objId[obj]}
                 /\ objects'[objId[obj]] = obj
                 /\ OthersKept(objects, objects', objId[obj])
                 /\ lastOp'.outcome = "ok"]_vars

\* C16 witness: a store-object changed the registry while another entry was
\* in it.
C16_Witness ==
    /\ lastOp.kind = MSGTYPE.OBJ
    /\ mutated
    /\ (DOMAIN objects) \ {lastOp.key} # {}

\* C17: request-object for an id in the registry returns the object stored
\* under that id and removes that id, every other entry unchanged; for a
\* missing id it fails with a lookup error and the registry is unchanged.
C17_RequestObjectTransfers ==
    [][\A obj_id \in Ids :
          RecvObjReq(obj_id)
              => IF obj_id \in DOMAIN objects
                 THEN /\ lastOp'.outcome = "ok"
                      /\ lastOp'.ret = objects[obj_id]
                      /\ objects' = Without(objects, obj_id)
                 ELSE /\ lastOp'.outcome = "UnknownObject"
                      /\ objects' = objects]_vars

\* C18: delete-object removes the id if it is present and does nothing
\* otherwise: it never raises, never changes another entry, and a second
\* delete-object of the same id leaves the registry as the first left it.
C18_DeleteObjectIdempotent ==
    [][\A remote_key \in Ids :
          RecvObjDel(remote_key)
              => /\ objects' = Without(objects, remote_key)
                 /\ lastOp'.outcome = "ok"
                 /\ rm_obj(objects', remote_key) = objects']_vars

\* C18 witness: a delete-object removed an entry and left another one.
C18_Witness ==
    /\ lastOp.kind = MSGTYPE.OBJ_DEL
    /\ mutated
    /\ objects # [k \in {} |-> None]

\* C19: after a successful execute-command the result is in the registry
\* under a fresh id (no key of the registry before the command, so that no
\* entry is overwritten), and the pointer returned has that id as
\* id_at_location.
C19_ResultUnderFreshId ==
    [][(lastOp'.kind = MSGTYPE.CMD /\ lastOp'.outcome = "ok")
          => /\ lastOp'.ret \notin DOMAIN objects
             /\ lastOp'.ret \in DOMAIN objects'
             /\ \A k \in DOMAIN objects : k \in DOMAIN objects' /\ objects'[k] = objects[k]]_vars

\* C23: a message of each of the four kinds goes to the one handler the
\* router holds for its kind; the None that store-object and delete-object
\* return leaves recv_msg as the sentinel 0, and the object of request-object
\* and the pointer of execute-command leave it as the handler returned them.
C23_RoutedAndNormalized ==
    /\ DOMAIN MessageRouter = {MSGTYPE.CMD, MSGTYPE.OBJ, MSGTYPE.OBJ_REQ, MSGTYPE.OBJ_DEL}
    /\ (lastOp.kind \in {MSGTYPE.OBJ, MSGTYPE.OBJ_DEL})
           => (lastOp.outcome = "ok" /\ lastOp.retKind = "zero" /\ lastOp.ret = 0)
    /\ (lastOp.kind = MSGTYPE.OBJ_REQ /\ lastOp.outcome = "ok")
           => (lastOp.retKind = "obj" /\ lastOp.ret \in Objs)
    /\ (lastOp.kind = MSGTYPE.CMD /\ lastOp.outcome = "ok")
           => (lastOp.retKind = "ptr" /\ lastOp.ret \in Ids)

\* C23 witness: a delete-object that removed an entry answered the sentinel.
C23_Witness ==
    /\ lastOp.kind = MSGTYPE.OBJ_DEL
    /\ mutated
    /\ lastOp.retKind = "zero"

\* C30: every entry of the registry is stored under the id of the object it
\* holds, whatever messages and register_obj / de_register_obj calls came
\* before, and register_obj on a client worker registers nothing.
C30_RegistryKeyInvariant ==
    /\ \A k \in DOMAIN objects : objId[objects[k]] = k
    /\ (is_client_worker /\ lastOp.kind = "register_obj") => ~mutated

(***************************************************************************)
(*              BaseWorker: the address book and send                      *)
(*                                                                         *)
(* A second worker, Me, keeps an address book and sends tensors to the     *)
(* worker whose registry is modelled above, Bob.                           *)
(***************************************************************************)

\* The reference of the sending worker.
Me == 1

\* The reference of the receiving worker.
Bob == 2

\* add_worker as it would be if a known id kept its old worker.
add_worker_keeps_old(book, worker) ==
    [k \in (DOMAIN book) \cup {WorkerIdOf(worker)} |->
        IF k \in DOMAIN book THEN book[k] ELSE worker]

\* add_worker: self._known_workers[worker.id] = worker
add_worker(book, worker) ==
    [k \in (DOMAIN book) \cup {WorkerIdOf(worker)} |->
        IF k = WorkerIdOf(worker) THEN worker ELSE book[k]]

\* get_worker: what it returns or raises, and the address book it leaves.
\*   an id (str or int): the known worker; for an unknown id the
\*       WorkerNotFoundException under fail_hard, else a warning and the id;
\*   a worker: add_worker if its id is unknown, and the worker itself.
get_worker(book, id_or_worker, fail_hard) ==
    IF id_or_worker[1] = "id"
    THEN IF id_or_worker[2] \in DOMAIN book
         THEN [outcome |-> "ok", retKind |-> "worker", ret |-> book[id_or_worker[2]],
               book |-> book]
         ELSE IF fail_hard
         THEN [outcome |-> "WorkerNotFoundException", retKind |-> "raise", ret |-> None,
               book |-> book]
         ELSE [outcome |-> "ok", retKind |-> "id", ret |-> id_or_worker[2], book |-> book]
    ELSE [outcome |-> "ok", retKind |-> "worker", ret |-> id_or_worker[2],
          book |-> IF WorkerIdOf(id_or_worker[2]) \notin DOMAIN book
                   THEN add_worker(book, id_or_worker[2])
                   ELSE book]

\* What get_worker is called with: an id or a worker.
WorkerArgs == {<<"id", i>> : i \in WorkerIds} \cup {<<"ref", w>> : w \in Workers}

\* Me.__init__ with no known_workers: add_worker(self).  Bob as BaseWorker.__init__
\* leaves it, not a client worker.
InitNetwork ==
    /\ known_workers = add_worker([k \in {} |-> None], Me)
    /\ lastNet = NetRecord("init", <<"none", None>>, "ok", "none", None, FALSE, None, NoPointer)
    /\ objects = [k \in {} |-> None]
    /\ objId \in [Objs -> Ids]
    /\ owned = {}
    /\ is_client_worker = FALSE
    /\ lastOp = OpRecord("init", None, "", FALSE, "ok", "none", None, FALSE)
    /\ mutated = FALSE
    /\ handedOver = {}
    /\ nodes = <<>>
    /\ lastBound = NoBound
    /\ lastOperand = NoOperand
    /\ PublishIdle
    /\ PointerIdle

\* Me.get_worker(id_or_worker, fail_hard)
GetWorker(id_or_worker, fail_hard) ==
    LET r == get_worker(known_workers, id_or_worker, fail_hard) IN
    /\ known_workers' = r.book
    /\ lastNet' = NetRecord("get_worker", id_or_worker, r.outcome, r.retKind, r.ret,
                            FALSE, None, NoPointer)
    /\ UNCHANGED <<workerVars, graphVars, publishVars, pointerVars>>

\* Me.add_worker(worker): a warning is logged for a known id.
AddWorker(worker) ==
    /\ known_workers' = add_worker(known_workers, worker)
    /\ lastNet' = NetRecord("add_worker", <<"ref", worker>>, "ok", "none", None,
                            WorkerIdOf(worker) \in DOMAIN known_workers, None, NoPointer)
    /\ UNCHANGED <<workerVars, graphVars, publishVars, pointerVars>>

\* Me.send(tensor, Bob, ptr_id): get_worker(Bob); a random ptr_id when none is
\* given; send_obj(tensor, Bob), which Bob's recv_msg hands to set_obj; then
\* tensor.create_pointer(location=worker, id_at_location=tensor.id, ptr_id=ptr_id).
Send(tensor, ptr_id, random) ==
    LET r == get_worker(known_workers, <<"ref", Bob>>, FALSE)
        ptr == IF ptr_id = None THEN random ELSE ptr_id
    IN
    /\ known_workers' = r.book
    /\ MessageRouter[MSGTYPE.OBJ] = "set_obj"
    /\ objects' = set_obj(objects, objId, tensor)
    /\ handedOver' = handedOver \ {objId[tensor]}
    /\ lastOp' = OpRecord(MSGTYPE.OBJ, objId[tensor], "", FALSE, "ok",
                          NormalizeResponse("none"), None, FALSE)
    /\ mutated' = (objects' # objects)
    /\ lastNet' = NetRecord("send", <<"ref", Bob>>, "ok", "pointer", ptr, FALSE, tensor,
                            [location |-> r.ret, id_at_location |-> objId[tensor],
                             id |-> ptr])
    /\ UNCHANGED <<objId, owned, is_client_worker>>
    /\ UNCHANGED <<graphVars, publishVars, pointerVars>>

NextNetwork ==
    \/ \E id_or_worker \in WorkerArgs, fail_hard \in BOOLEAN : GetWorker(id_or_worker, fail_hard)
    \/ \E worker \in Workers : AddWorker(worker)
    \/ \E tensor \in Objs, ptr_id \in Ids \cup {None}, random \in Ids :
           Send(tensor, ptr_id, random)

SpecNetwork == InitNetwork /\ [][NextNetwork]_vars

\* C21: get_worker on a worker whose id is not in the address book adds the
\* worker and returns it; add_worker on a worker whose id is known replaces
\* the old entry, with a warning and without an error; and no call takes an
\* id out of the address book.
C21_DiscoveryIsPermissive ==
    [][/\ \A w \in Workers, fail_hard \in BOOLEAN :
             (GetWorker(<<"ref", w>>, fail_hard) /\ WorkerIdOf(w) \notin DOMAIN known_workers)
                 => /\ WorkerIdOf(w) \in DOMAIN known_workers'
                    /\ known_workers'[WorkerIdOf(w)] = w
                    /\ lastNet'.outcome = "ok"
                    /\ lastNet'.ret = w
       /\ \A w \in Workers :
             (AddWorker(w) /\ WorkerIdOf(w) \in DOMAIN known_workers)
                 => /\ known_workers'[WorkerIdOf(w)] = w
                    /\ lastNet'.outcome = "ok"
                    /\ lastNet'.warned
       /\ DOMAIN known_workers \subseteq DOMAIN known_workers']_vars

\* C21 witness: add_worker has just replaced the worker of a known id by
\* another one, in an address book that a discovery has extended.
C21_Witness ==
    /\ lastNet.kind = "add_worker"
    /\ lastNet.warned
    /\ lastNet.arg[2] # Me
    /\ known_workers[WorkerIdOf(lastNet.arg[2])] = lastNet.arg[2]
    /\ Cardinality(DOMAIN known_workers) > 1

\* C22: after send(tensor, worker, ptr_id) the receiving worker holds the
\* tensor in its registry under ptr_id, and the pointer returned refers to
\* id ptr_id at that worker.
C22_SendStoresUnderPtrId ==
    [][\A tensor \in Objs, ptr_id \in Ids, random \in Ids :
          Send(tensor, ptr_id, random)
              => /\ ptr_id \in DOMAIN objects'
                 /\ objects'[ptr_id] = tensor
                 /\ lastNet'.pointer.location = Bob
                 /\ lastNet'.pointer.id_at_location = ptr_id]_vars

(***************************************************************************)
(*                         GammaTensor: values                             *)
(***************************************************************************)
\* An array is a sequence of integers; a sequence of length 1 stands for a
\* 0-d array (the result of sum or of a 1-D matmul) and broadcasts.

RECURSIVE Power(_, _)
Power(x, k) == IF k = 0 THEN 1 ELSE x * Power(x, k - 1)

\* Width of the two's complement window the bit operations are computed in
\* (numpy's integers are 64 bits wide; every finite value of the model fits in 8).
BitWidth == 8

ToUnsigned(x) == x % Power(2, BitWidth)

FromUnsigned(u) == IF u >= Power(2, BitWidth - 1) THEN u - Power(2, BitWidth) ELSE u

RECURSIVE Bits(_, _, _, _)
Bits(op, x, y, n) ==
    IF n = 0 \/ (x = 0 /\ y = 0) THEN 0
    ELSE LET bx == x % 2
             by == y % 2
             b == CASE op = "and" -> bx * by
                    [] op = "or" -> IF bx + by > 0 THEN 1 ELSE 0
                    [] op = "xor" -> IF bx # by THEN 1 ELSE 0
         IN b + 2 * Bits(op, x \div 2, y \div 2, n - 1)

\* jnp.bitwise_and / bitwise_or / bitwise_xor on signed integers.
BitOp(op, x, y) == FromUnsigned(Bits(op, ToUnsigned(x), ToUnsigned(y), BitWidth))

\* numpy's inf, the quotient by zero.
Inf == 1000000

\* Arithmetic on inf gives a value that is not finite; they are one value here.
Arith(x, y, finite) == IF x = Inf \/ y = Inf THEN Inf ELSE finite

\* jnp.true_divide; a quotient is represented by its floor.
TrueDivide(x, y) == IF y = 0 THEN Inf ELSE x \div y

Bool(b) == IF b THEN 1 ELSE 0

\* The element-wise operation behind each operator (numpy's on child, jnp's in
\* func: jnp.add, jnp.subtract, jnp.multiply, jnp.true_divide, jnp.greater, ...).
ElementOp(op, x, y) ==
    CASE op = "add" -> Arith(x, y, x + y)
      [] op = "sub" -> Arith(x, y, x - y)
      [] op = "mul" -> Arith(x, y, x * y)
      [] op = "truediv" -> Arith(x, y, TrueDivide(x, y))
      [] op = "rtruediv" -> Arith(x, y, TrueDivide(y, x))
      [] op = "pow" -> Arith(x, y, Power(x, y))
      [] op = "gt" -> Bool(x > y)
      [] op = "ge" -> Bool(x >= y)
      [] op = "eq" -> Bool(x = y)
      [] op = "ne" -> Bool(x # y)
      [] op = "lt" -> Bool(x < y)
      [] op = "le" -> Bool(x <= y)
      [] op \in {"and", "or", "xor"} -> BitOp(op, x, y)

\* numpy broadcasting of two arrays of equal length, or of one array and a 0-d one.
Broadcast(op, a, b) ==
    IF Len(a) = Len(b) THEN [i \in 1..Len(a) |-> ElementOp(op, a[i], b[i])]
    ELSE IF Len(b) = 1 THEN [i \in 1..Len(a) |-> ElementOp(op, a[i], b[1])]
    ELSE [i \in 1..Len(b) |-> ElementOp(op, a[1], b[i])]

RECURSIVE SumSeq(_)
SumSeq(a) == IF a = <<>> THEN 0 ELSE ElementOp("add", a[1], SumSeq(Tail(a)))

\* jnp.matmul of two 1-D arrays: their inner product, a 0-d array.
MatMul(a, b) == << SumSeq([i \in 1..Len(a) |-> ElementOp("mul", a[i], b[i])]) >>

RECURSIVE Insert(_, _)
Insert(x, sorted) ==
    IF sorted = <<>> THEN <<x>>
    ELSE IF x <= sorted[1] THEN <<x>> \o sorted
    ELSE <<sorted[1]>> \o Insert(x, Tail(sorted))

RECURSIVE SortArray(_)
SortArray(a) == IF a = <<>> THEN <<>> ELSE Insert(a[1], SortArray(Tail(a)))

ZerosLike(a) == [i \in 1..Len(a) |-> 0]

\* The value of a binary operator on two arrays.
BinaryValue(op, a, b) == IF op = "matmul" THEN MatMul(a, b) ELSE Broadcast(op, a, b)

\* The value of a unary operation (k: its parameter, if any).
UnaryValue(op, a, k) ==
    CASE op = "pow" -> Broadcast("pow", a, <<k>>)
      [] op = "sum" -> << SumSeq(a) >>
      [] op = "transpose" -> a
      [] op = "sort" -> SortArray(a)
      [] op = "ones_like" -> [i \in 1..Len(a) |-> 1]
      [] op = "zeros_like" -> ZerosLike(a)

\* The operands a binary operator is applied to here: a divisor without zeros
\* (numpy gives inf and a warning otherwise) and, for matmul, two 1-D arrays
\* of one length (numpy raises ValueError for any other operand of the model).
Defined(op, a, b) ==
    CASE op = "truediv" -> \A i \in 1..Len(b) : b[i] # 0
      [] op = "matmul" -> Len(a) = Len(b) /\ Len(a) > 1
      [] OTHER -> TRUE

(***************************************************************************)
(*                       GammaTensor: nodes and func                       *)
(***************************************************************************)
\* A node is a record
\*    child      the materialized array
\*    cell       the array object child refers to (nodes of one cell share it)
\*    lib        "numpy" or "jax": the library the array object belongs to
\*    func       the rebuild function, as an expression over a state
\*    sources    a function id -> node (its index in nodes)
\*    is_linear  the flag
\*    op, self, other, kind   how the node was constructed (bookkeeping)
\* A node's id is its index in nodes (a fresh UID each).

\* func of a source tensor with this id: the value its state entry holds.
SrcExpr(id) == [tag |-> "src", id |-> id]

\* lambda state: jnp.<op>(self.reconstruct(state), other.reconstruct(state))
BinExpr(op, l, r) == [tag |-> "bin", op |-> op, l |-> l, r |-> r]

\* lambda state: jnp.<op>(self.reconstruct(state), other)
ScalarExpr(op, l, k) == [tag |-> "scalar", op |-> op, l |-> l, k |-> k]

\* lambda state: jnp.<op>(self.reconstruct(state), ...)
UnExpr(op, l, k) == [tag |-> "un", op |-> op, l |-> l, k |-> k]

\* Running a func on a state (the values are read from the nodes of pool).
RECURSIVE Run(_, _, _)
Run(func, state, pool) ==
    CASE func.tag = "src" -> pool[state[func.id]].child
      [] func.tag = "bin" ->
            BinaryValue(func.op, Run(func.l, state, pool), Run(func.r, state, pool))
      [] func.tag = "scalar" ->
            BinaryValue(func.op, Run(func.l, state, pool), <<func.k>>)
      [] func.tag = "un" -> UnaryValue(func.op, Run(func.l, state, pool), func.k)

\* The library of the array a func returns: a source's own array, else jnp's.
RunLib(func, state, pool) ==
    IF func.tag = "src" THEN pool[state[func.id]].lib ELSE "jax"

\* The array object a func returns: a source's own array, else a new one.
RunCell(func, state, pool, fresh) ==
    IF func.tag = "src" THEN pool[state[func.id]].cell ELSE fresh

\* reconstruct: return self.func(state)
reconstruct(pool, self, state) == Run(pool[self].func, state, pool)

\* The constructor.
GammaTensor(child, cell, lib, func, sources, is_linear, op, self, other, kind) ==
    [child |-> child, cell |-> cell, lib |-> lib, func |-> func, sources |-> sources,
     is_linear |-> is_linear, op |-> op, self |-> self, other |-> other, kind |-> kind]

\* A new array object.
NewCell(pool) == Len(pool) + 1

\* The source map of a binary operator as it would be without the update.
Update_skipped(s1, s2) == s1

\* output_state = self.sources.copy(); output_state.update(other.sources)
Update(s1, s2) ==
    [k \in (DOMAIN s1) \cup (DOMAIN s2) |-> IF k \in DOMAIN s2 THEN s2[k] ELSE s1[k]]

\* The array of the other operand: a node's child, or a Python scalar.
OtherValue(pool, other, kind) == IF kind = "node" THEN pool[other].child ELSE <<other>>

\* numpy yields to jax: the result of an operator is numpy's only if both arrays are.
JoinLib(pool, self, other, kind) ==
    IF pool[self].lib = "jax" \/ (kind = "node" /\ pool[other].lib = "jax")
    THEN "jax" ELSE "numpy"

\* The body shared by the binary operators: child from the children, func
\* over both funcs, sources of self updated with those of other.
Binary(pool, op, self, other, kind, is_linear) ==
    GammaTensor(
        BinaryValue(op, pool[self].child, OtherValue(pool, other, kind)),
        NewCell(pool),
        JoinLib(pool, self, other, kind),
        IF kind = "node" THEN BinExpr(op, pool[self].func, pool[other].func)
                         ELSE ScalarExpr(op, pool[self].func, other),
        IF kind = "node" THEN Update(pool[self].sources, pool[other].sources)
                         ELSE pool[self].sources,
        is_linear, op, self, other, kind)

\* The body shared by the unary operations that build a new array.
Unary(pool, op, self, k, lib, is_linear) ==
    GammaTensor(UnaryValue(op, pool[self].child, k), NewCell(pool), lib,
                UnExpr(op, pool[self].func, k), pool[self].sources,
                is_linear, op, self, k, "none")

(***************************************************************************)
(*                         GammaTensor: methods                            *)
(***************************************************************************)
\* Every method takes the nodes built so far (pool), self (an index) and its
\* arguments, and gives the node it returns.  other is a node (kind "node":
\* a GammaTensor, or a PhiTensor through other.gamma) or a Python scalar
\* (kind "scalar").

__add__(pool, self, other, kind) ==
    Binary(pool, "add", self, other, kind, pool[self].is_linear)

__sub__(pool, self, other, kind) ==
    Binary(pool, "sub", self, other, kind, pool[self].is_linear)

\* No is_linear is passed: the dataclass default, False.
__mul__(pool, self, other, kind) ==
    Binary(pool, "mul", self, other, kind, FALSE)

\* __rmul__: return self.__mul__(other)
__rmul__(pool, self, other, kind) ==
    [__mul__(pool, self, other, kind) EXCEPT !.op = "rmul"]

\* __rsub__: return (self - other) * -1
__rsub__(pool, self, other, kind) ==
    LET difference == __sub__(pool, self, other, kind)
        withDifference == Append(pool, difference)
        product == __mul__(withDifference, Len(withDifference), -1, "scalar")
    IN  [product EXCEPT !.cell = NewCell(pool), !.op = "rsub", !.self = self,
                        !.other = other, !.kind = kind]

\* linear = False for a GammaTensor divisor, True for any other.
__truediv__(pool, self, other, kind) ==
    Binary(pool, "truediv", self, other, kind, kind # "node")

\* __rtruediv__ with a Python scalar as other: other / self.child, linear = True.
__rtruediv__(pool, self, other) ==
    Binary(pool, "rtruediv", self, other, "scalar", TRUE)

__matmul__(pool, self, other, kind) ==
    Binary(pool, "matmul", self, other, kind, FALSE)

\* __gt__, __ge__, __eq__, __ne__, __lt__, __le__: one body each, no is_linear.
CompareOps == {"gt", "ge", "eq", "ne", "lt", "le"}

Comparison(pool, op, self, other, kind) ==
    Binary(pool, op, self, other, kind, FALSE)

\* __and__, __or__, __xor__: one body each, no is_linear.
BitwiseOps == {"and", "or", "xor"}

Bitwise(pool, op, self, other, kind) ==
    Binary(pool, op, self, other, kind, FALSE)

\* __pow__ as it would be if it passed the flag of self on.
__pow___keeps_flag(pool, self, power) ==
    Unary(pool, "pow", self, power, pool[self].lib, pool[self].is_linear)

\* __pow__: no is_linear is passed.
__pow__(pool, self, power) ==
    Unary(pool, "pow", self, power, pool[self].lib, FALSE)

\* sum: child is np.array(self.child.sum(...)), the flag is that of self.
sum(pool, self) ==
    Unary(pool, "sum", self, None, "numpy", pool[self].is_linear)

\* ones_like: np.ones_like for a numpy child, else the child's own; is_linear=True.
ones_like(pool, self) ==
    Unary(pool, "ones_like", self, None, pool[self].lib, TRUE)

\* zeros_like: the same with zeros; is_linear=True.
zeros_like(pool, self) ==
    Unary(pool, "zeros_like", self, None, pool[self].lib, TRUE)

\* transpose: child is self.child.transpose(), for numpy a view of the same data.
transpose(pool, self) ==
    [Unary(pool, "transpose", self, None, pool[self].lib, pool[self].is_linear)
        EXCEPT !.cell = pool[self].cell]

\* self.child.sort(axis, kind): a numpy array is sorted in place, and with it
\* every node whose child is that array; a jax array is immutable, its sort
\* returns a sorted copy, which is dropped.
SortInPlace(pool, self) ==
    [i \in 1..Len(pool) |->
        IF pool[self].lib = "numpy" /\ pool[i].cell = pool[self].cell
        THEN [pool[i] EXCEPT !.child = SortArray(pool[self].child)]
        ELSE pool[i]]

\* sort: the nodes after the call, the returned node last.  Its child is
\* self.child itself; no is_linear is passed.
sort(pool, self) ==
    LET sorted == SortInPlace(pool, self)
    IN  Append(sorted,
               GammaTensor(sorted[self].child, pool[self].cell, pool[self].lib,
                           UnExpr("sort", pool[self].func, None), pool[self].sources,
                           FALSE, "sort", self, None, "none"))

\* filtered: child is jnp.zeros_like(self.child), func replays self.
filtered(pool, self) ==
    GammaTensor(ZerosLike(pool[self].child), NewCell(pool), "jax", pool[self].func,
                pool[self].sources, FALSE, "filtered", self, None, "none")

\* swap_state as it would be if child were rebuilt from self.sources.
swap_state_own_sources(pool, self, state) ==
    GammaTensor(reconstruct(pool, self, pool[self].sources),
                RunCell(pool[self].func, pool[self].sources, pool, NewCell(pool)),
                RunLib(pool[self].func, pool[self].sources, pool),
                pool[self].func, state, pool[self].is_linear,
                "swap_state", self, None, "none")

\* swap_state as it would be if the new node kept the sources of self.
swap_state_keeps_sources(pool, self, state) ==
    GammaTensor(reconstruct(pool, self, state),
                RunCell(pool[self].func, state, pool, NewCell(pool)),
                RunLib(pool[self].func, state, pool),
                pool[self].func, pool[self].sources, pool[self].is_linear,
                "swap_state", self, None, "none")

\* swap_state: child = self.reconstruct(state), sources = state, same func and flag.
swap_state(pool, self, state) ==
    GammaTensor(reconstruct(pool, self, state),
                RunCell(pool[self].func, state, pool, NewCell(pool)),
                RunLib(pool[self].func, state, pool),
                pool[self].func, state, pool[self].is_linear,
                "swap_state", self, None, "none")

(***************************************************************************)
(*                      GammaTensor: the graph grows                       *)
(***************************************************************************)

\* The number of nodes built by operations on top of the source tensors.
MaxDerived == 1

\* The children of the source tensors.
LeafChildren == << <<2, 1>>, <<1, 3>> >>

\* The Python scalars used as operands, and the powers.
Scalars == {2}

NodeIds == 1..Len(nodes)

\* A source tensor: its sources hold the tensor itself under its id, its func
\* reads its entry of the state.
Leaf(i, child, lib, is_linear) ==
    GammaTensor(child, i, lib, SrcExpr(i), (i :> i), is_linear, "source", None, None, "none")

\* The worker of the graph's process handles no message meanwhile.
WorkerIdle ==
    /\ objects = [k \in {} |-> None]
    /\ objId = [o \in Objs |-> 1]
    /\ owned = {}
    /\ is_client_worker = FALSE
    /\ lastOp = OpRecord("init", None, "", FALSE, "ok", "none", None, FALSE)
    /\ mutated = FALSE
    /\ handedOver = {}

\* Two source tensors, of one array library, each flag as its creator set it.
InitGraph ==
    /\ \E lib \in {"numpy", "jax"}, flags \in [1..Len(LeafChildren) -> BOOLEAN] :
          nodes = [i \in 1..Len(LeafChildren) |-> Leaf(i, LeafChildren[i], lib, flags[i])]
    /\ lastBound = NoBound
    /\ lastOperand = NoOperand
    /\ WorkerIdle
    /\ PublishIdle
    /\ PointerIdle
    /\ NetworkIdle

CanBuild == Len(nodes) < Len(LeafChildren) + MaxDerived

\* The operands of a binary operator: every node, every scalar.
Others == {<<i, "node">> : i \in NodeIds} \cup {<<k, "scalar">> : k \in Scalars}

Applicable(op, self, o) ==
    Defined(op, nodes[self].child, OtherValue(nodes, o[1], o[2]))

\* The states a node can be replayed on: every source replaced by a node of
\* the same shape.
States(pool, self) ==
    {st \in [DOMAIN pool[self].sources -> 1..Len(pool)] :
        \A k \in DOMAIN st :
            Len(pool[st[k]].child) = Len(pool[pool[self].sources[k]].child)}

Add(self, o) ==
    /\ CanBuild
    /\ nodes' = Append(nodes, __add__(nodes, self, o[1], o[2]))
    /\ UNCHANGED <<lastBound, lastOperand, workerVars, publishVars, pointerVars, networkVars>>

Sub(self, o) ==
    /\ CanBuild
    /\ nodes' = Append(nodes, __sub__(nodes, self, o[1], o[2]))
    /\ UNCHANGED <<lastBound, lastOperand, workerVars, publishVars, pointerVars, networkVars>>

RSub(self, k) ==
    /\ CanBuild
    /\ nodes' = Append(nodes, __rsub__(nodes, self, k, "scalar"))
    /\ UNCHANGED <<lastBound, lastOperand, workerVars, publishVars, pointerVars, networkVars>>

Mul(self, o) ==
    /\ CanBuild
    /\ nodes' = Append(nodes, __mul__(nodes, self, o[1], o[2]))
    /\ UNCHANGED <<lastBound, lastOperand, workerVars, publishVars, pointerVars, networkVars>>

RMul(self, k) ==
    /\ CanBuild
    /\ nodes' = Append(nodes, __rmul__(nodes, self, k, "scalar"))
    /\ UNCHANGED <<lastBound, lastOperand, workerVars, publishVars, pointerVars, networkVars>>

TrueDiv(self, o) ==
    /\ CanBuild
    /\ Applicable("truediv", self, o)
    /\ nodes' = Append(nodes, __truediv__(nodes, self, o[1], o[2]))
    /\ UNCHANGED <<lastBound, lastOperand, workerVars, publishVars, pointerVars, networkVars>>

\* other / self for a scalar other and a child without zeros.
RTrueDiv(self, k) ==
    /\ CanBuild
    /\ \A i \in 1..Len(nodes[self].child) : nodes[self].child[i] # 0
    /\ nodes' = Append(nodes, __rtruediv__(nodes, self, k))
    /\ UNCHANGED <<lastBound, lastOperand, workerVars, publishVars, pointerVars, networkVars>>

OnesLike(self) ==
    /\ CanBuild
    /\ nodes' = Append(nodes, ones_like(nodes, self))
    /\ UNCHANGED <<lastBound, lastOperand, workerVars, publishVars, pointerVars, networkVars>>

ZerosLikeOf(self) ==
    /\ CanBuild
    /\ nodes' = Append(nodes, zeros_like(nodes, self))
    /\ UNCHANGED <<lastBound, lastOperand, workerVars, publishVars, pointerVars, networkVars>>

MatMulNodes(self, other) ==
    /\ CanBuild
    /\ Applicable("matmul", self, <<other, "node">>)
    /\ nodes' = Append(nodes, __matmul__(nodes, self, other, "node"))
    /\ UNCHANGED <<lastBound, lastOperand, workerVars, publishVars, pointerVars, networkVars>>

Compare(op, self, o) ==
    /\ CanBuild
    /\ nodes' = Append(nodes, Comparison(nodes, op, self, o[1], o[2]))
    /\ UNCHANGED <<lastBound, lastOperand, workerVars, publishVars, pointerVars, networkVars>>

BitwiseApply(op, self, o) ==
    /\ CanBuild
    /\ nodes' = Append(nodes, Bitwise(nodes, op, self, o[1], o[2]))
    /\ UNCHANGED <<lastBound, lastOperand, workerVars, publishVars, pointerVars, networkVars>>

Pow(self, power) ==
    /\ CanBuild
    /\ nodes' = Append(nodes, __pow__(nodes, self, power))
    /\ UNCHANGED <<lastBound, lastOperand, workerVars, publishVars, pointerVars, networkVars>>

Sum(self) ==
    /\ CanBuild
    /\ nodes' = Append(nodes, sum(nodes, self))
    /\ UNCHANGED <<lastBound, lastOperand, workerVars, publishVars, pointerVars, networkVars>>

Transpose(self) ==
    /\ CanBuild
    /\ nodes' = Append(nodes, transpose(nodes, self))
    /\ UNCHANGED <<lastBound, lastOperand, workerVars, publishVars, pointerVars, networkVars>>

Sort(self) ==
    /\ CanBuild
    /\ nodes' = sort(nodes, self)
    /\ UNCHANGED <<lastBound, lastOperand, workerVars, publishVars, pointerVars, networkVars>>

Filtered(self) ==
    /\ CanBuild
    /\ nodes' = Append(nodes, filtered(nodes, self))
    /\ UNCHANGED <<lastBound, lastOperand, workerVars, publishVars, pointerVars, networkVars>>

SwapState(self, state) ==
    /\ CanBuild
    /\ nodes' = Append(nodes, swap_state(nodes, self, state))
    /\ UNCHANGED <<lastBound, lastOperand, workerVars, publishVars, pointerVars, networkVars>>

NextGraph ==
    \/ \E self \in NodeIds, o \in Others : Add(self, o)
    \/ \E self \in NodeIds, o \in Others : Sub(self, o)
    \/ \E self \in NodeIds, k \in Scalars : RSub(self, k)
    \/ \E self \in NodeIds, o \in Others : Mul(self, o)
    \/ \E self \in NodeIds, k \in Scalars : RMul(self, k)
    \/ \E self \in NodeIds, o \in Others : TrueDiv(self, o)
    \/ \E self \in NodeIds, k \in Scalars : RTrueDiv(self, k)
    \/ \E self \in NodeIds : OnesLike(self)
    \/ \E self \in NodeIds : ZerosLikeOf(self)
    \/ \E self \in NodeIds, other \in NodeIds : MatMulNodes(self, other)
    \/ \E op \in CompareOps, self \in NodeIds, o \in Others : Compare(op, self, o)
    \/ \E op \in BitwiseOps, self \in NodeIds, o \in Others : BitwiseApply(op, self, o)
    \/ \E self \in NodeIds, power \in Scalars : Pow(self, power)
    \/ \E self \in NodeIds : Sum(self)
    \/ \E self \in NodeIds : Transpose(self)
    \/ \E self \in NodeIds : Sort(self)
    \/ \E self \in NodeIds : Filtered(self)
    \/ \E self \in NodeIds : \E state \in States(nodes, self) : SwapState(self, state)

SpecGraph == InitGraph /\ [][NextGraph]_vars

(***************************************************************************)
(*                      GammaTensor.lipschitz_bound                        *)
(***************************************************************************)

\* The (min_vals, max_vals) of the sources handed to the search as its box.
BoundBoxes == {<<0, 1>>, <<-2, -1>>}

\* What shgo can return as the optimum of the search: -shgo(...).fun.
Optima == {0, 2}

\* lipschitz_bound as it would be without the test of is_linear.
lipschitz_bound_searches(pool, self, bounds, optimum) ==
    [read |-> TRUE, is_linear |-> pool[self].is_linear, value |-> optimum,
     searched |-> TRUE, bounds_read |-> bounds \in BoundBoxes]

\* lipschitz_bound: 1.0 for a linear node, before the bounds of the sources
\* are read or the gradient is built; else the negated optimum of the search
\* over the box of the sources' bounds.
lipschitz_bound(pool, self, bounds, optimum) ==
    IF pool[self].is_linear
    THEN [read |-> TRUE, is_linear |-> TRUE, value |-> 1, searched |-> FALSE,
          bounds_read |-> FALSE]
    ELSE [read |-> TRUE, is_linear |-> FALSE, value |-> optimum, searched |-> TRUE,
          bounds_read |-> bounds \in BoundBoxes]

\* Reading the property of a node: no node changes, so a second read would
\* see what the first saw, and a run reads once.
LipschitzBound(self, bounds, optimum) ==
    /\ lastBound = NoBound
    /\ lastBound' = lipschitz_bound(nodes, self, bounds, optimum)
    /\ UNCHANGED <<nodes, lastOperand, workerVars, publishVars, pointerVars, networkVars>>

NextSensitivity ==
    \/ NextGraph
    \/ \E self \in NodeIds, bounds \in BoundBoxes, optimum \in Optima :
          LipschitzBound(self, bounds, optimum)

SpecSensitivity == InitGraph /\ [][NextSensitivity]_vars

(***************************************************************************)
(*               GammaTensor.lipschitz_bound: the search                   *)
(***************************************************************************)

\* The funcs the gradient is worked out for here: polynomials in the sources.
RECURSIVE Polynomial(_)
Polynomial(func) ==
    CASE func.tag = "src" -> TRUE
      [] func.tag = "bin" ->
            func.op \in {"add", "sub", "mul"} /\ Polynomial(func.l) /\ Polynomial(func.r)
      [] func.tag = "scalar" -> func.op \in {"add", "sub", "mul"} /\ Polynomial(func.l)
      [] func.tag = "un" -> func.op \in {"pow", "sum", "transpose"} /\ Polynomial(func.l)

\* self.func(state) for a state of arrays: a point of the search.
RunAt(func, point) ==
    Run(func, [k \in DOMAIN point |-> k], [k \in DOMAIN point |-> [child |-> point[k]]])

\* The derivative of every element of func(point) by element j of source src.
RECURSIVE Partial(_, _, _, _)
Partial(func, point, src, j) ==
    CASE func.tag = "src" ->
            [i \in 1..Len(point[func.id]) |-> IF func.id = src /\ i = j THEN 1 ELSE 0]
      [] func.tag = "bin" ->
            LET dl == Partial(func.l, point, src, j)
                dr == Partial(func.r, point, src, j)
            IN  IF func.op = "mul"
                THEN Broadcast("add", Broadcast("mul", dl, RunAt(func.r, point)),
                                      Broadcast("mul", RunAt(func.l, point), dr))
                ELSE Broadcast(func.op, dl, dr)
      [] func.tag = "scalar" ->
            LET ds == Partial(func.l, point, src, j)
            IN  IF func.op = "mul" THEN Broadcast("mul", ds, <<func.k>>) ELSE ds
      [] func.tag = "un" ->
            LET du == Partial(func.l, point, src, j)
            IN  IF func.op = "pow"
                THEN Broadcast("mul",
                               Broadcast("mul", <<func.k>>,
                                         UnaryValue("pow", RunAt(func.l, point), func.k - 1)),
                               du)
                ELSE IF func.op = "sum" THEN << SumSeq(du) >>
                ELSE du

\* grad_fn = jax.grad(lambda state: jnp.sum(self.func(state))): the components
\* of the gradient at a point, over every element of every source.
grad_fn(pool, self, point) ==
    UNION {{SumSeq(Partial(pool[self].func, point, src, j)) : j \in 1..Len(point[src])} :
              src \in DOMAIN point}

SetMax(S) == CHOOSE x \in S : \A y \in S : y <= x

SetMin(S) == CHOOSE x \in S : \A y \in S : x <= y

Abs(x) == IF x < 0 THEN -x ELSE x

\* The box of the search: every element of every source between its bounds.
Box(pool, self, bounds) ==
    LET lengths == {Len(pool[pool[self].sources[k]].child) : k \in DOMAIN pool[self].sources}
        arrays == UNION {[1..n -> bounds[1]..bounds[2]] : n \in lengths}
    IN  {point \in [DOMAIN pool[self].sources -> arrays] :
            \A k \in DOMAIN point : Len(point[k]) = Len(pool[pool[self].sources[k]].child)}

\* def search(array_state): return -jnp.max(jnp.array(list(grads.values())))
search(pool, self, point) == -SetMax(grad_fn(pool, self, point))

\* shgo(search, bounds=bounds): the global minimum of search over the box.
shgo(pool, self, bounds) ==
    [fun |-> SetMin({search(pool, self, point) : point \in Box(pool, self, bounds)})]

\* Reading lipschitz_bound with the search run: return -shgo(...).fun
SearchBound(self, bounds) ==
    /\ lastBound = NoBound
    /\ Polynomial(nodes[self].func)
    /\ lastBound' = lipschitz_bound(nodes, self, bounds, -shgo(nodes, self, bounds).fun)
    /\ UNCHANGED <<nodes, lastOperand, workerVars, publishVars, pointerVars, networkVars>>

NextSearch ==
    \/ NextGraph
    \/ \E self \in NodeIds, bounds \in BoundBoxes : SearchBound(self, bounds)

SpecSearch == InitGraph /\ [][NextSearch]_vars

\* The largest absolute value of a component of the gradient over the box.
MaxAbsGradient(pool, self, bounds) ==
    SetMax({Abs(g) : g \in UNION {grad_fn(pool, self, point) : point \in Box(pool, self, bounds)}})

\* C26: for a node whose is_linear is False, lipschitz_bound returns the
\* maximum over the box of the sources' bounds of the largest absolute
\* component of the gradient of sum(func(state)): more than 1 for x**2 over
\* [0, 1], and the magnitude of the gradient, never 0 or a negative number,
\* where the gradient is negative over the bounds.
C26_SearchFindsMaxAbsGradient ==
    [][\A self \in NodeIds, bounds \in BoundBoxes :
          (SearchBound(self, bounds) /\ ~nodes[self].is_linear)
              => /\ lastBound'.searched
                 /\ lastBound'.value = MaxAbsGradient(nodes, self, bounds)]_vars

(***************************************************************************)
(*            GammaTensor: operands of no supported type                   *)
(***************************************************************************)

\* Operands that are no PhiTensor, no GammaTensor and no acceptable simple
\* type (int, bool, float, numpy array): a Python list and a str.
UnsupportedOperands == {"list", "str"}

\* The operators called with them: one of each kind of body.
\*   "mod"  if / elif is_acceptable_simple_type / else: raise NotImplementedError
\*   "add"  if / if is_acceptable_simple_type, and no else
\*   "sub"  if / else: self.child - other
UnsupportedOps == {"mod", "add", "sub"}

\* What the operator does with such an operand.
\*   __mod__: the else branch raises NotImplementedError.
\*   __add__: no branch binds child and func; the return statement raises
\*            UnboundLocalError.
\*   __sub__: the else branch hands the operand to the array: numpy takes
\*            a list as an array and subtracts, and raises TypeError for a
\*            str; a jax array raises TypeError for both.
unsupported_operand(op, lib, other) ==
    CASE op = "mod" -> "NotImplementedError"
      [] op = "add" -> "UnboundLocalError"
      [] op = "sub" -> IF lib = "numpy" /\ other = "list" THEN "ok" ELSE "TypeError"

\* self <op> other for an operand of no supported type; k is the element of
\* the list.  Where the array takes the operand, the node is built as for
\* any other operand of the else branch.
CallUnsupported(op, self, other, k) ==
    LET outcome == unsupported_operand(op, nodes[self].lib, other) IN
    /\ outcome = "ok" => CanBuild
    /\ nodes' = IF outcome = "ok"
                THEN Append(nodes, [__sub__(nodes, self, k, "scalar") EXCEPT !.kind = other])
                ELSE nodes
    /\ lastOperand' = [op |-> op, other |-> other, outcome |-> outcome,
                       built |-> (outcome = "ok")]
    /\ UNCHANGED <<lastBound, workerVars, publishVars, pointerVars, networkVars>>

NextOperand ==
    \/ NextGraph
    \/ \E op \in UnsupportedOps, self \in NodeIds, other \in UnsupportedOperands,
          k \in Scalars : CallUnsupported(op, self, other, k)

SpecOperand == InitGraph /\ [][NextOperand]_vars

\* C25: every binary operation of the graph called with an operand whose
\* type is outside the supported set raises the unsupported-operand error
\* (NotImplementedError, after "Type is unsupported") and builds no node.
C25_UnsupportedOperandRaises ==
    [][\A op \in UnsupportedOps, self \in NodeIds, other \in UnsupportedOperands,
          k \in Scalars :
          CallUnsupported(op, self, other, k)
              => /\ lastOperand'.outcome = "NotImplementedError"
                 /\ ~lastOperand'.built
                 /\ nodes' = nodes]_vars

\* C20: the lipschitz_bound of a node whose is_linear is True is exactly 1,
\* whatever the bounds of its sources and whatever the search would have
\* found, and it is returned without the search being run or the bounds read.
C20_LinearSensitivityIsOne ==
    [][\A self \in NodeIds, bounds \in BoundBoxes, optimum \in Optima :
          (LipschitzBound(self, bounds, optimum) /\ nodes[self].is_linear)
              => /\ lastBound'.value = 1
                 /\ ~lastBound'.searched
                 /\ ~lastBound'.bounds_read]_vars

\* C20 witness: the bound of a linear node built by an operation was read
\* and came back as 1.
C20_Witness ==
    /\ lastBound.read
    /\ lastBound.is_linear
    /\ lastBound.value = 1
    /\ \E i \in NodeIds : nodes[i].is_linear
    /\ \A i \in NodeIds : nodes[i].is_linear => nodes[i].op # "source"


(***************************************************************************)
(*                         GammaTensor.publish                             *)
(*                                                                         *)
(* GammaTensor.publish hands the tensor, its own is_linear flag and the    *)
(* caller's arguments to the publish engine of adp.vectorized_publish.     *)
(* The engine's steps follow its contract: query the budget of every       *)
(* contributing data subject, drop the ones that cannot pay, add noise,    *)
(* deduct for every retained data subject, return the value.               *)
(***************************************************************************)

\* GammaTensor.publish as it would be if it passed private=False on.
publish_not_private(self, private) ==
    [tensor |-> self, is_linear |-> self.is_linear, private |-> FALSE]

\* GammaTensor.publish: the arguments of the engine call.
publish(self, private) ==
    [tensor |-> self, is_linear |-> self.is_linear, private |-> private]

\* The tensors handed to publish: a source tensor, its flag set or not.
PublishTensors == {Leaf(1, LeafChildren[1], "jax", f) : f \in BOOLEAN}

\* epsilon spent per data subject: sensitivity 1 for a linear tensor, the
\* estimator's larger bound otherwise.
Epsilon(is_linear) == IF is_linear THEN 1 ELSE 2

\* The retained data subjects as they would be if paid ones were forgotten.
Unpaid_forgets(kept, paid) == kept

\* The retained data subjects that have not paid in this call yet.
Unpaid(kept, paid) == {s \in kept : paid[s] = 0}

\* The data subjects that stay in: the ones that paid already, and the unpaid
\* ones whose budget get_budget reports as sufficient.
Affordable(kept, paid, budget, eps) ==
    (kept \ Unpaid(kept, paid)) \cup {s \in Unpaid(kept, paid) : budget[s] >= eps}

InitPublish ==
    /\ WorkerIdle
    /\ nodes = <<>>
    /\ lastBound = NoBound
    /\ lastOperand = NoOperand
    /\ PointerIdle
    /\ NetworkIdle
    /\ pc = "idle"
    /\ ledger \in [Subjects -> 0..MaxBudget]
    /\ NoCall

\* tensor.publish(get_budget_for_user, deduct_epsilon_for_user, ledger, sigma, private)
Publish(self, data_subjects, private) ==
    /\ pc = "idle"
    /\ request' = [tensor |-> self, data_subjects |-> data_subjects, private |-> private]
    /\ engineArgs' = publish(self, private)
    /\ retained' = data_subjects
    /\ deductions' = [s \in Subjects |-> 0]
    /\ paidAttempt' = [s \in Subjects |-> 0]
    /\ pending' = {}
    /\ attempt' = 0
    /\ failedAttempts' = {}
    /\ releasedAttempt' = 0
    /\ pc' = IF engineArgs'.private THEN "get_budget" ELSE "return"
    /\ UNCHANGED <<ledger, workerVars, graphVars, pointerVars, networkVars>>

\* private=False: reconstruct(full state) is returned unmodified.
ReturnUnmodified ==
    /\ pc = "return"
    /\ pc' = "returned"
    /\ UNCHANGED <<ledger, request, engineArgs, retained, deductions, paidAttempt,
                   pending, attempt, failedAttempts, releasedAttempt>>
    /\ UNCHANGED <<workerVars, graphVars, pointerVars, networkVars>>

\* One round of the drop-and-retry loop starts: get_budget for every data
\* subject, the ones that cannot pay are dropped (filtered path); with
\* nobody left the whole publish fails.
GetBudget ==
    /\ pc = "get_budget"
    /\ attempt' = attempt + 1
    /\ retained' = Affordable(retained, deductions, ledger, Epsilon(engineArgs.is_linear))
    /\ pc' = IF retained' = {} THEN "raised" ELSE "noise"
    /\ UNCHANGED <<ledger, request, engineArgs, deductions, paidAttempt, pending,
                   failedAttempts, releasedAttempt>>
    /\ UNCHANGED <<workerVars, graphVars, pointerVars, networkVars>>

\* Noise of scale sigma * sensitivity is added; the deduct calls are due.
AddNoise ==
    /\ pc = "noise"
    /\ pending' = Unpaid(retained, deductions)
    /\ pc' = "deduct"
    /\ UNCHANGED <<ledger, request, engineArgs, retained, deductions, paidAttempt,
                   attempt, failedAttempts, releasedAttempt>>
    /\ UNCHANGED <<workerVars, graphVars, pointerVars, networkVars>>

\* deduct_budget(subject, epsilon): it fails when the budget went meanwhile,
\* and then the attempt is aborted and the loop entered again.
Deduct(s) ==
    /\ pc = "deduct"
    /\ s \in pending
    /\ LET eps == Epsilon(engineArgs.is_linear)
       IN  IF ledger[s] >= eps
           THEN /\ ledger' = [ledger EXCEPT ![s] = @ - eps]
                /\ deductions' = [deductions EXCEPT ![s] = @ + 1]
                /\ paidAttempt' = [paidAttempt EXCEPT ![s] = attempt]
                /\ pending' = pending \ {s}
                /\ UNCHANGED <<pc, failedAttempts>>
           ELSE /\ failedAttempts' = failedAttempts \cup {attempt}
                /\ pending' = {}
                /\ pc' = "get_budget"
                /\ UNCHANGED <<ledger, deductions, paidAttempt>>
    /\ UNCHANGED <<request, engineArgs, retained, attempt, releasedAttempt>>
    /\ UNCHANGED <<workerVars, graphVars, pointerVars, networkVars>>

\* Every deduct call of the attempt succeeded: the noised value is returned.
Return ==
    /\ pc = "deduct"
    /\ pending = {}
    /\ releasedAttempt' = attempt
    /\ pc' = "returned"
    /\ UNCHANGED <<ledger, request, engineArgs, retained, deductions, paidAttempt,
                   pending, attempt, failedAttempts>>
    /\ UNCHANGED <<workerVars, graphVars, pointerVars, networkVars>>

\* The call is over for its caller, who may publish again.
Done ==
    /\ pc \in {"returned", "raised"}
    /\ pc' = "idle"
    /\ UNCHANGED <<ledger, request, engineArgs, retained, deductions, paidAttempt,
                   pending, attempt, failedAttempts, releasedAttempt>>
    /\ UNCHANGED <<workerVars, graphVars, pointerVars, networkVars>>

\* Another requester's publish spends from the same ledger (the race).
OtherRequester(s) ==
    /\ ledger[s] > 0
    /\ ledger' = [ledger EXCEPT ![s] = @ - 1]
    /\ UNCHANGED <<pc, request, engineArgs, retained, deductions, paidAttempt,
                   pending, attempt, failedAttempts, releasedAttempt>>
    /\ UNCHANGED <<workerVars, graphVars, pointerVars, networkVars>>

NextPublish ==
    \/ \E self \in PublishTensors, data_subjects \in (SUBSET Subjects) \ {{}},
          private \in BOOLEAN : Publish(self, data_subjects, private)
    \/ ReturnUnmodified
    \/ GetBudget
    \/ AddNoise
    \/ \E s \in Subjects : Deduct(s)
    \/ Return
    \/ Done
    \/ \E s \in Subjects : OtherRequester(s)

SpecPublish == InitPublish /\ [][NextPublish]_vars

(***************************************************************************)
(*                       Claims about GammaTensor                          *)
(***************************************************************************)

\* C6: replay fidelity.  For every node built by any sequence of operations
\* (arithmetic, comparison, reduction, shape operations, sort, filtered,
\* swap_state), reconstruct on the node's own sources gives the node's child.
C6_ReplayFidelity ==
    \A n \in NodeIds : reconstruct(nodes, n, nodes[n].sources) = nodes[n].child

\* The node swap_state(state) returns when called on the node once that an
\* earlier swap_state returned.
SwapAgain(pool, once, state) == swap_state(Append(pool, once), Len(pool) + 1, state)

\* C7: swap_state is idempotent.  For every node n and every state s, the
\* value of n.swap_state(s).swap_state(s) is the value of n.swap_state(s).
C7_SwapStateIdempotent ==
    \A n \in NodeIds : \A s \in States(nodes, n) :
        LET once == swap_state(nodes, n, s)
        IN  SwapAgain(nodes, once, s).child = once.child

\* C7 witness: a node built by an operator on two sources whose value a
\* swap_state changes, and on which the second swap_state was evaluated.
C7_Witness ==
    \E n \in NodeIds : \E s \in States(nodes, n) :
        /\ nodes[n].op = "add" /\ nodes[n].kind = "node"
        /\ swap_state(nodes, n, s).child # nodes[n].child
        /\ SwapAgain(nodes, swap_state(nodes, n, s), s).sources = s

\* C8: linearity of addition and subtraction.  For all nodes a and b, the flag
\* of a + b (and of a - b) is a.is_linear and b.is_linear.
C8_AddLinearity ==
    \A n \in NodeIds :
        (nodes[n].op \in {"add", "sub"} /\ nodes[n].kind = "node")
            => nodes[n].is_linear =
                   (nodes[nodes[n].self].is_linear /\ nodes[nodes[n].other].is_linear)

\* C9: linearity of scalar multiplication.  For every node a and every scalar
\* k, the flag of a * k, of k * a and of k - a is a.is_linear.
C9_ScalarMulLinearity ==
    \A n \in NodeIds :
        ((nodes[n].op \in {"mul", "rmul", "rsub"} /\ nodes[n].kind = "scalar"))
            => nodes[n].is_linear = nodes[nodes[n].self].is_linear

\* C10: non-linear operations clear the flag.  A node times or over a node, a
\* matmul of two nodes, any power, any comparison and any boolean operation
\* give is_linear = False, whatever the flags of the operands.
C10_NonLinearClearsFlag ==
    \A n \in NodeIds :
        (\/ (nodes[n].op \in {"mul", "rmul", "truediv", "matmul"} /\ nodes[n].kind = "node")
         \/ nodes[n].op \in {"pow"} \cup CompareOps \cup BitwiseOps)
            => nodes[n].is_linear = FALSE

\* The operations that preserve linearity, by how the node was constructed.
PreservesLinearity(node) ==
    \/ node.op \in {"add", "sub", "sum", "transpose", "swap_state"}
    \/ node.op \in {"mul", "rmul", "rsub", "truediv"} /\ node.kind = "scalar"

\* C11: linearity is a property of the whole construction history.  A node
\* that an operation built has is_linear = True only if the operation
\* preserves linearity and every node it was applied to has is_linear = True:
\* no operation on a node with is_linear = False (division by a scalar,
\* scalar / node, ones_like, ...) gives a node with is_linear = True.
C11_LinearityIsHistory ==
    \A n \in NodeIds :
        (nodes[n].op # "source" /\ nodes[n].is_linear)
            => /\ PreservesLinearity(nodes[n])
               /\ nodes[nodes[n].self].is_linear
               /\ nodes[n].kind = "node" => nodes[nodes[n].other].is_linear

\* C10 witness: a power of a node whose own flag is set.
C10_Witness ==
    \E n \in NodeIds :
        /\ nodes[n].op = "pow"
        /\ nodes[nodes[n].self].is_linear
        /\ ~nodes[n].is_linear

\* The nodes that were there before a step, as the step leaves them.
Earlier(after, before) == SubSeq(after, 1, Len(before))

\* C24: swap_state(state) returns a new node whose value is
\* reconstruct(state), whose sources are state, and whose func and is_linear
\* are those of the node it was called on; that node and the nodes of the
\* state are after the call what they were before it.
C24_SwapStateFrame ==
    [][\A self \in NodeIds : \A state \in States(nodes, self) :
          SwapState(self, state)
              => LET new == nodes'[Len(nodes')] IN
                 /\ Len(nodes') = Len(nodes) + 1
                 /\ new.child = reconstruct(nodes, self, state)
                 /\ new.sources = state
                 /\ new.func = nodes[self].func
                 /\ new.is_linear = nodes[self].is_linear
                 /\ Earlier(nodes', nodes) = nodes]_vars

\* C24 witness: swap_state on a linear node, with a state that is not the
\* node's own sources and changes the value.
C24_Witness ==
    \E n \in NodeIds :
        /\ nodes[n].op = "swap_state"
        /\ nodes[n].is_linear
        /\ nodes[n].sources # nodes[nodes[n].self].sources
        /\ nodes[n].child # nodes[nodes[n].self].child

C28_ValuesImmutable ==
    [][\A i \in 1..Len(nodes) : nodes'[i].child = nodes[i].child]_vars

(***************************************************************************)
(*                     Claims about GammaTensor.publish                    *)
(***************************************************************************)

\* C4: deduct-before-release.  A publish with private=true returns a value
\* only after the deduct call succeeded for every data subject still included
\* in the result, and no value is returned from an attempt in which a deduct
\* call failed (the drop-and-retry loop is entered again instead).
C4_DeductBeforeRelease ==
    (pc = "returned" /\ request.private)
        => /\ \A s \in retained : deductions[s] >= 1
           /\ releasedAttempt >= 1
           /\ releasedAttempt \notin failedAttempts

\* C4 witness: a private publish returned a value after an attempt in which
\* a deduct call failed, with a data subject still included.
C4_Witness ==
    /\ pc = "returned" /\ request.private
    /\ failedAttempts # {}
    /\ \E s \in retained : deductions[s] = 1

MaxMessages == 2

Pointer(client, public_shape, public_dtype, id_at_location) ==
    [client |-> client, public_shape |-> public_shape, public_dtype |-> public_dtype,
     id_at_location |-> id_at_location]

\* The pointers the caller starts with: two at one client, of two shapes, and
\* one at another client.
InitialPointers ==
    << Pointer(1, <<2>>, "int64", 1), Pointer(1, <<3>>, "int64", 2),
       Pointer(2, <<2>>, "int64", 3) >>

PointerIds == 1..Len(pointers)

Operands ==
    {<<"pointer", i>> : i \in PointerIds} \cup {<<"int", 2>>, <<"str", None>>, <<"mpc", None>>}

\* The operators dispatched through _apply_op (an arithmetic and a comparison
\* one), and the methods dispatched through _apply_self_tensor_op.
BinaryOpStrs == {"__add__", "__gt__"}

SelfOpStrs == {"sum", "transpose"}

\* UID(): the id_at_location of a pointer constructed now.
NewId == Len(InitialPointers) + Len(outbox) + 1

Message(kind, path, self, args, id_at_location, address) ==
    [kind |-> kind, path |-> path, self |-> self, args |-> args,
     id_at_location |-> id_at_location, address |-> address]

\* RunClassMethodAction(path, _self, args, kwargs, id_at_location, address)
RunClassMethodAction(op_str, self, args, id_at_location, address) ==
    Message("cmd", op_str, self, args, id_at_location, address)

\* pointerize_args_and_kwargs with nothing converted: the arguments go into
\* the command as they are.
pointerize_args_and_kwargs_skipped(args, client) == <<>>

\* pointerize_args_and_kwargs: what is no pointer is sent to the client first.
pointerize_args_and_kwargs(args, client) ==
    IF args = <<>> \/ args[1][1] = "pointer" THEN <<>>
    ELSE << Message("upload", "", None, args, None, client) >>

\* pointer_args: the arguments the command is built from, by kind.  A pointer
\* stays one; what pointerize_args_and_kwargs has sent to the client is the
\* pointer to it; anything else would go as it is.
pointer_args(args, client) ==
    [i \in DOMAIN args |->
        IF args[i][1] = "pointer" THEN "pointer"
        ELSE IF pointerize_args_and_kwargs(<<args[i]>>, client) # <<>> THEN "pointer"
        ELSE args[i][1]]

\* _apply_op as it would be without its branch for two clients.
_apply_op_direct(pool, self, other) ==
    IF other[1] = "mpc" THEN "mpc_other" ELSE "_apply_tensor_op"

\* _apply_op: where the operation goes.  Two pointers of different clients:
\* both are wrapped in an MPCTensor and the operation is the MPCTensor's; an
\* MPCTensor as other: its own operation; else _apply_tensor_op.
_apply_op(pool, self, other) ==
    IF other[1] = "pointer" /\ pool[self].client # pool[other[2]].client THEN "mpc"
    ELSE IF other[1] = "mpc" THEN "mpc_other"
    ELSE "_apply_tensor_op"

\* The isinstance chain of _apply_tensor_op: a pointer, an int or float, an
\* ndarray; anything else raises ValueError.
SupportedOther(other) == other[1] \in {"pointer", "int"}

OtherShape(pool, other) == IF other[1] = "pointer" THEN pool[other[2]].public_shape ELSE <<1>>

\* utils.get_shape: the broadcasting rule; it raises for two shapes that do
\* not broadcast.
Broadcastable(s1, s2) == s1 = s2 \/ s1 = <<1>> \/ s2 = <<1>>

get_shape(op_str, s1, s2) == IF s1 = <<1>> THEN s2 ELSE s1

\* utils.get_dtype: bool for a comparison, else the dtype of self.
get_dtype(op_str, d1) == IF op_str = "__gt__" THEN "bool" ELSE d1

\* The shape numpy gives the result of a method on an array of this shape.
SelfShape(op_str, shape) == IF op_str = "sum" THEN <<>> ELSE shape

InitPointer ==
    /\ WorkerIdle
    /\ nodes = <<>>
    /\ lastBound = NoBound
    /\ lastOperand = NoOperand
    /\ PublishIdle
    /\ NetworkIdle
    /\ pointers = InitialPointers
    /\ outbox = <<>>
    /\ processing_pointers = [c \in Parties |-> {}]
    /\ lastApply = ApplyRecord("init", None, <<"none", None>>, "none", "ok", 0, None)

\* self.<op_str>(other): _apply_op, then for one client _apply_tensor_op:
\* compute_min_max (it may raise), the result pointer, the operand made a
\* pointer, the command sent, and only then the type of other and the shapes
\* are looked at; the result is flagged in processing_pointers and returned.
Apply(op_str, self, other, bounds_ok) ==
    /\ Len(outbox) < MaxMessages
    /\ LET route == _apply_op(pointers, self, other) IN
       IF route # "_apply_tensor_op"
       THEN /\ lastApply' = ApplyRecord(op_str, self, other, route, "mpc", 0, None)
            /\ UNCHANGED <<pointers, outbox, processing_pointers>>
       ELSE IF ~bounds_ok
       THEN /\ lastApply' = ApplyRecord(op_str, self, other, route, "ValueError", 0, None)
            /\ UNCHANGED <<pointers, outbox, processing_pointers>>
       ELSE LET client == pointers[self].client
                id == NewId
                uploads == pointerize_args_and_kwargs(<<other>>, client)
                cmd == RunClassMethodAction(op_str, self, pointer_args(<<other>>, client), id, client)
                other_shape == OtherShape(pointers, other)
                valid == /\ SupportedOther(other)
                         /\ Broadcastable(pointers[self].public_shape, other_shape)
            IN  /\ outbox' = (outbox \o uploads) \o <<cmd>>
                /\ IF valid
                   THEN /\ pointers' = Append(pointers,
                              Pointer(client,
                                      get_shape(op_str, pointers[self].public_shape, other_shape),
                                      get_dtype(op_str, pointers[self].public_dtype), id))
                        /\ processing_pointers' =
                              [processing_pointers EXCEPT ![client] = @ \cup {id}]
                        /\ lastApply' = ApplyRecord(op_str, self, other, route, "ok", 1, id)
                   ELSE /\ lastApply' =
                              ApplyRecord(op_str, self, other, route, "ValueError", 1, None)
                        /\ UNCHANGED <<pointers, processing_pointers>>
    /\ UNCHANGED <<workerVars, graphVars, publishVars, networkVars>>

\* A command for self alone is sent and the result pointer returned;
\* processing_pointers is not written.
SelfDispatch(op_str, route, self) ==
    LET client == pointers[self].client
        id == NewId
    IN  /\ outbox' = Append(outbox, RunClassMethodAction(op_str, self, <<>>, id, client))
        /\ pointers' = Append(pointers,
               Pointer(client, SelfShape(op_str, pointers[self].public_shape),
                       pointers[self].public_dtype, id))
        /\ lastApply' = ApplyRecord(op_str, self, <<"none", None>>, route, "ok", 1, id)
        /\ UNCHANGED processing_pointers

\* self.sum(), self.transpose(), ...: _apply_self_tensor_op.
ApplySelf(op_str, self, bounds_ok) ==
    /\ Len(outbox) < MaxMessages
    /\ IF ~bounds_ok
       THEN /\ lastApply' = ApplyRecord(op_str, self, <<"none", None>>,
                                        "_apply_self_tensor_op", "ValueError", 0, None)
            /\ UNCHANGED <<pointers, outbox, processing_pointers>>
       ELSE SelfDispatch(op_str, "_apply_self_tensor_op", self)
    /\ UNCHANGED <<workerVars, graphVars, publishVars, networkVars>>

\* self.std()
Std(self) ==
    /\ Len(outbox) < MaxMessages
    /\ SelfDispatch("std", "std", self)
    /\ UNCHANGED <<workerVars, graphVars, publishVars, networkVars>>

\* self.T
T(self) ==
    /\ Len(outbox) < MaxMessages
    /\ SelfDispatch("T", "T", self)
    /\ UNCHANGED <<workerVars, graphVars, publishVars, networkVars>>

\* self.concatenate(other): ValueError for an other that is no pointer; for
\* two clients both are wrapped in an MPCTensor and concatenated there; for
\* one client ValueError ("works only between two different clients").
Concatenate(self, other) ==
    /\ Len(outbox) < MaxMessages
    /\ lastApply' =
          IF other[1] # "pointer"
          THEN ApplyRecord("concatenate", self, other, "concatenate", "ValueError", 0, None)
          ELSE IF pointers[self].client # pointers[other[2]].client
          THEN ApplyRecord("concatenate", self, other, "mpc", "mpc", 0, None)
          ELSE ApplyRecord("concatenate", self, other, "concatenate", "ValueError", 0, None)
    /\ UNCHANGED <<pointers, outbox, processing_pointers>>
    /\ UNCHANGED <<workerVars, graphVars, publishVars, networkVars>>

NextPointer ==
    \/ \E op_str \in BinaryOpStrs, self \in PointerIds, other \in Operands,
          bounds_ok \in BOOLEAN : Apply(op_str, self, other, bounds_ok)
    \/ \E op_str \in SelfOpStrs, self \in PointerIds, bounds_ok \in BOOLEAN :
          ApplySelf(op_str, self, bounds_ok)
    \/ \E self \in PointerIds : Std(self)
    \/ \E self \in PointerIds : T(self)
    \/ \E self \in PointerIds, other \in Operands : Concatenate(self, other)

SpecPointer == InitPointer /\ [][NextPointer]_vars

(***************************************************************************)
(*             Claims about TensorWrappedGammaTensorPointer                *)
(***************************************************************************)

\* The clients of the two operands of the last operation differ.
TwoClients ==
    /\ lastApply.other[1] = "pointer"
    /\ pointers[lastApply.self].client # pointers[lastApply.other[2]].client

\* C12: validation precedes dispatch.  A binary operation on a pointer that
\* fails for an operand of an unsupported type or of a shape that does not
\* broadcast has sent no execute command to the client.
C12_ValidationPrecedesDispatch ==
    (lastApply.op \in BinaryOpStrs /\ lastApply.outcome = "ValueError")
        => lastApply.sent = 0

C15_ReturnedPointerIsProcessing ==
    (lastApply.outcome = "ok" /\ lastApply.result # None)
        => lastApply.result \in processing_pointers[pointers[lastApply.self].client]

\* The messages the last step has added to the outbox.
Sent(before, after) == SubSeq(after, Len(before) + 1, Len(after))

====
